---- MODULE Spec2Model ----
(***************************************************************************)
(* fit-html: custom elements that bind a lit-html template to a redux      *)
(* store.  The repository holds several revisions of the binding element; *)
(* each is modelled as one value of `ver`:                                 *)
(*   "v0"   src/unnamed/part_003         (parentElement walk, no snapshot) *)
(*   "v1"   src/src/connect.ts:106-243   (_previousProps, no _isConnected) *)
(*   "v4"   src/src/connect.ts:597-734   (_isConnected guard)              *)
(*   "v3"   src/src/connect.ts:425-505 with src/src/with-props.ts          *)
(*          (no snapshot; attachShadow in connectedCallback)               *)
(*   "v2"   src/src/connect.ts:295-372 over src/src/fit-element.ts         *)
(*          (synchronous _computeProps)                                    *)
(*   "head" src/unnamed/part_013 over src/src/fit-element.ts               *)
(*          (deferred _computeProps)                                       *)
(* The host tree, the redux store and the microtask queue are modelled as *)
(* far as the element's code reads or drives them.                         *)
(***************************************************************************)
EXTENDS Integers, Sequences, FiniteSets, TLC

VARIABLES
    ver,    \* the revision of connect() the elements were created by
    cfg,    \* how the element classes were defined (see Plain)
    pos,    \* host tree: the parent node of each binding element (or Nil)
    el,     \* the fields of each binding element
    st,     \* redux: the state of each store
    lis,    \* redux: the listeners of each store, in subscription order
    mq,     \* the microtask queue
    turn,   \* the phase of the current task-queue turn
    ob,     \* per element: what its collaborators saw during this turn
    ev,     \* what the last step did
    ops,    \* the number of script operations performed so far
    pf      \* a call of a pure function: its arguments and its result

vars == <<ver, cfg, pos, el, st, lis, mq, turn, ob, ev, ops, pf>>

(***************************************************************************)
(* Bounds of the model.                                                    *)
(***************************************************************************)
MaxState == 2       \* the state of store O is a counter in 0..MaxState
MaxCount == 2       \* the per-turn counters saturate here
MaxOps == 6

Versions == {"v1", "v2", "v4", "head"}
Stores == {"O", "I"}
Elements == {"e", "x"}
Nil == "nil"

NoStore == "none"

\* The class definitions of the two elements.  own: the store that element e
\* was given by withStore(store)(connect(...)(template)), or NoStore.
\* throws: the mapStateToProps handed to connect() throws when it is called.
\* params: the number of parameters the function handed to connect() as
\* mapStateToProps declares (its length).
\* dispatches: the template function calls props.inc() while it renders a
\* count of zero.
\* loose: the script also builds a tree outside the document, a provider pd that
\* is never inserted, and may place element e below it.
Plain ==
    [own |-> NoStore, throws |-> FALSE, params |-> 2, dispatches |-> FALSE, loose |-> FALSE]

\* no pure function is being called
NoCall == [fn |-> "none"]

Min(a, b) == IF a < b THEN a ELSE b
Bump(n) == Min(n + 1, MaxCount)

(***************************************************************************)
(* JavaScript values.  A property value is undefined, a number, a string   *)
(* or a function object; a function object is identified by the store it  *)
(* dispatches to and by the binding that created it.  An object is a       *)
(* TLA+ function from its own keys; a reference that may be null or        *)
(* undefined is a tagged record.                                           *)
(***************************************************************************)
Undef == [t |-> "undefined", n |-> 0, s |-> ""]
Num(n) == [t |-> "number", n |-> n, s |-> ""]
Str(s) == [t |-> "string", n |-> 0, s |-> s]
Fn(s, g) == [t |-> "function", n |-> g, s |-> s]

EmptyObj == [k \in {} |-> Undef]
NullRef == [t |-> "null", o |-> EmptyObj]
UndefRef == [t |-> "undefined", o |-> EmptyObj]
Obj(o) == [t |-> "object", o |-> o]

\* a[key] of a JavaScript object: undefined for a key the object lacks
Get(o, k) == IF k \in DOMAIN o THEN o[k] ELSE Undef

\* Object.assign({}, a, b): b's keys win
Assign(a, b) == [k \in DOMAIN a \cup DOMAIN b |-> IF k \in DOMAIN b THEN b[k] ELSE a[k]]

IsNullish(r) == r.t \in {"null", "undefined"}

shallowEqual(a, b) ==
    IF a = b THEN TRUE
    ELSE IF IsNullish(a) \/ IsNullish(b) THEN FALSE
    ELSE IF Cardinality(DOMAIN a.o) # Cardinality(DOMAIN b.o) THEN FALSE
    ELSE \A k \in DOMAIN a.o : Get(a.o, k) = Get(b.o, k)

(***************************************************************************)
(* The host tree.  "doc" is the document, "po" a store source for store O *)
(* at the top of the document, "e" and "x" the two binding elements, "pi" *)
(* a store source for store I that is a light-DOM child of e, and "sr" the *)
(* shadow root of e.  Only the binding elements are moved.                 *)
(***************************************************************************)
Nodes == {"doc", "po", "pi", "pd", "sr"} \cup Elements

\* where a script may insert each binding element
Places(n) == IF n = "e" THEN {"po"} ELSE {"pi", "sr", "doc"}

\* <body><todo-app></todo-app></body>: an element that carries its own store is
\* also used as the root of the application
RootPlaces(c, n) == IF n = "e" /\ c.own # NoStore THEN {"doc"} ELSE {}

\* const pd = document.createElement('provider'); pd.appendChild(e): a tree
\* that is built outside the document
LoosePlaces(c, n) == IF n = "e" /\ c.loose THEN {"pd"} ELSE {}

ParentNode(p, n) ==
    CASE n = "po" -> "doc"
      [] n = "pi" -> "e"
      [] n \in Elements -> p[n]
      [] OTHER -> Nil

Host(n) == IF n = "sr" THEN "e" ELSE Nil

\* node.parentNode || node.host
Up(p, n) == IF ParentNode(p, n) # Nil THEN ParentNode(p, n) ELSE Host(n)

RECURSIVE InDocument(_, _)
InDocument(p, n) ==
    IF n = "doc" THEN TRUE
    ELSE IF Up(p, n) = Nil THEN FALSE
    ELSE InDocument(p, Up(p, n))

RECURSIVE Below(_, _, _)
\* n is m or a shadow-including descendant of m
Below(p, n, m) ==
    IF n = m THEN TRUE
    ELSE IF Up(p, n) = Nil THEN FALSE
    ELSE Below(p, Up(p, n), m)

\* the binding elements of n's subtree, in tree order
SubtreeElements(p, n) ==
    IF n = "e" THEN (IF Below(p, "x", "e") THEN <<"e", "x">> ELSE <<"e">>)
    ELSE <<n>>

\* the store a store source was created with
ProvidedStore(n) == IF n = "po" THEN "O" ELSE "I"

\* createProvider(store): the element has a reduxStore property
isProvider(n) == n \in {"po", "pi", "pd"}

\* withStore(clazz, store) and every connect() element have a getStore method
HasGetStore(n) == n \in {"po", "pi", "pd"} \cup Elements

(***************************************************************************)
(* The collaborators: the reducer and the two projections.                 *)
(***************************************************************************)
Actions == {"inc", "dec"}

\* store O counts; store I has a reducer that ignores every action, as the
\* store of the test has
reducer(s, state, a) ==
    IF s # "O" THEN state
    ELSE IF a = "inc" THEN state + 1
    ELSE state - 1

\* mapStateToProps = (state, ownProps) => ({ count: state, p: ownProps && ownProps.p })
mapStateToProps(state, ownProps) ==
    ("count" :> Num(state)) @@
    ("p" :> (IF ownProps.t = "object" THEN Get(ownProps.o, "p") ELSE Undef))

\* mapDispatchToProps: element e is connect(mapStateToProps, {}) as in the test,
\* element x is connect(mapStateToProps, { inc }) as in the README
mapDispatchToProps(e) == IF e = "e" THEN {} ELSE {"inc"}

\* bindActionCreators(mapDispatchToProps, store.dispatch): a new bound function per
\* action creator.  Generation 1 is the element's current binding, 2 an earlier one.
bindActionCreators(keys, s) == Obj([k \in keys |-> Fn(s, 1)])

\* the bound functions of an earlier binding, as seen once a new binding exists
Older(r) ==
    IF r.t # "object" THEN r
    ELSE Obj([k \in DOMAIN r.o |->
                IF r.o[k].t = "function" THEN Fn(r.o[k].s, 2) ELSE r.o[k]])

(***************************************************************************)
(* The fields of a binding element, and the world the handlers act on.     *)
(***************************************************************************)
\* this._unsubscribe: the store it was obtained from, whether its listener is
\* still registered, and how often the function has been invoked
NoHandle == [store |-> NoStore, live |-> FALSE, calls |-> 0]

NewElement(v) ==
    [ isConnected    |-> FALSE,
      renderEnqueued |-> FALSE,
      propsEnqueued  |-> FALSE,
      store          |-> NoStore,
      unsub          |-> NoHandle,
      prepared       |-> UndefRef,
      previousProps  |-> NullRef,
      renderProps    |-> UndefRef,
      ownProps       |-> IF v \in {"v1", "v3", "v4"} THEN Obj(EmptyObj) ELSE UndefRef,
      shadowRoot     |-> v \notin {"v0", "v3"},
      assigned       |-> EmptyObj,
      preparedMap    |-> "passed",
      factoryCalls   |-> 0,
      shadow         |-> UndefRef ]

\* a function that is never taken for a factory
isFactoryNever(c) == FALSE

\* isFactory of connect.ts:207-211: fn.length === 0
isFactory(c) == c.params = 0

\* the constructor: connect.ts:127-135 (also 318-324, 612-620, part_013:102-108).
\* preparedMap: whether this._preparedMapStateToProps is the function passed to
\* connect() or the one it returned when called without arguments;
\* factoryCalls: how often the passed function was called without arguments.
\* The revision connect.ts:425-505 has no such field and calls the passed function.
construct(v, c) ==
    IF v \notin {"v0", "v3"} /\ isFactory(c)
    THEN [NewElement(v) EXCEPT !.preparedMap = "returned", !.factoryCalls = @ + 1]
    ELSE NewElement(v)

\* the record of one turn for one element.  pure: since the turn began nothing
\* but its attachment and its store's synchronous notifications acted on it.
NewOb ==
    [ pure |-> TRUE, attached |-> FALSE, notifs |-> 0, redraws |-> 0, mapCalls |-> 0 ]

Tainted ==
    [ pure |-> FALSE, attached |-> FALSE, notifs |-> 0, redraws |-> 0, mapCalls |-> 0 ]

NewTurn(s) == [phase |-> "task", resumes |-> 0, st0 |-> s]

RenderTask(e) == [el |-> e, kind |-> "render"]
PropsTask(e) == [el |-> e, kind |-> "props"]
UserTask == [el |-> Nil, kind |-> "user"]

\* the record of one step: the operation, the node or store it was applied to,
\* the listeners notified, the microtasks scheduled, the elements whose
\* projection and template functions were invoked, the errors raised, and the
\* view a redraw replaced
NewEv(act, who) ==
    [ act |-> act, who |-> who, ntf |-> {}, enq |-> {}, maps |-> {}, tmpl |-> {},
      err |-> [e \in Elements |-> "none"], prev |-> UndefRef,
      arg |-> [e \in Elements |-> UndefRef],
      fn |-> [e \in Elements |-> "none"], req |-> {} ]

World(act, who) ==
    [ ver |-> ver, cfg |-> cfg, pos |-> pos, el |-> el, st |-> st, lis |-> lis, mq |-> mq,
      ob |-> ob, ev |-> NewEv(act, who), late |-> turn.phase # "task",
      exc |-> "none", ret |-> NoStore, props |-> UndefRef ]

Throw(w, x) == [w EXCEPT !.exc = x]
Return(w, s) == [w EXCEPT !.ret = s]

Taint(w, e) == [w EXCEPT !.ob[e] = Tainted]
Count(w, e, f) == IF w.ob[e].pure THEN [w EXCEPT !.ob[e][f] = Bump(@)] ELSE w

(***************************************************************************)
(* redux: subscribe and the unsubscribe function it returns.               *)
(***************************************************************************)
RemoveFirst(q, e) ==
    LET i == CHOOSE i \in 1..Len(q) : q[i] = e /\ \A j \in 1..(i - 1) : q[j] # e
    IN  SubSeq(q, 1, i - 1) \o SubSeq(q, i + 1, Len(q))

\* this._unsubscribe = store.subscribe(listener)
subscribe(w, e, s) ==
    [w EXCEPT !.lis[s] = Append(@, e),
              !.el[e].unsub = [store |-> s, live |-> TRUE, calls |-> 0]]

\* this._unsubscribe(): a TypeError when the field was never assigned, nothing
\* when the listener is already removed
unsubscribe(w, e) ==
    LET h == w.el[e].unsub IN
    IF h.store = NoStore THEN Throw(w, "TypeError")
    ELSE IF ~h.live THEN [w EXCEPT !.el[e].unsub.calls = Bump(@)]
    ELSE [w EXCEPT !.el[e].unsub.calls = Bump(@),
                   !.el[e].unsub.live = FALSE,
                   !.lis[h.store] = RemoveFirst(@, e)]

(***************************************************************************)
(* getStore.                                                               *)
(***************************************************************************)
RECURSIVE walkReduxStore(_, _, _)
\* connect.ts:169-180: the loop over node = node.parentNode || node.host
walkReduxStore(w, e, node) ==
    LET nx == Up(w.pos, node) IN
    IF nx = Nil THEN Throw(w, "MissingStore")
    ELSE IF isProvider(nx)
        THEN Return([w EXCEPT !.el[e].store = ProvidedStore(nx)], ProvidedStore(nx))
    ELSE IF nx \in Elements /\ w.el[nx].store # NoStore
        THEN Return([w EXCEPT !.el[e].store = w.el[nx].store], w.el[nx].store)
    ELSE walkReduxStore(w, e, nx)

\* node.parentElement: null when the parent is a shadow root or the document
ParentElement(p, n) ==
    IF ParentNode(p, n) \in {"sr", "doc"} THEN Nil ELSE ParentNode(p, n)

RECURSIVE walkParentElement(_, _, _)
\* part_003:69-75: the loop over node = node.parentElement
walkParentElement(w, e, node) ==
    LET nx == ParentElement(w.pos, node) IN
    IF nx = Nil THEN Throw(w, "MissingStore")
    ELSE IF isProvider(nx)
        THEN Return([w EXCEPT !.el[e].store = ProvidedStore(nx)], ProvidedStore(nx))
    ELSE walkParentElement(w, e, nx)

RECURSIVE getStore(_, _)
RECURSIVE walkGetStore(_, _, _)
\* connect.ts:660-668, part_013:138-146: the first ancestor with a getStore method
walkGetStore(w, e, node) ==
    LET nx == Up(w.pos, node) IN
    IF nx = Nil THEN Throw(w, "MissingStore")
    ELSE IF HasGetStore(nx)
        THEN LET r == IF nx \in Elements THEN getStore(w, nx)
                      ELSE Return(w, ProvidedStore(nx))
             IN  IF r.exc # "none" THEN r
                 ELSE [r EXCEPT !.el[e].store = r.ret]
    ELSE walkGetStore(w, e, nx)

getStore(w, e) ==
    IF e = "e" /\ w.cfg.own # NoStore THEN Return(w, w.cfg.own)
    ELSE IF w.el[e].store # NoStore THEN Return(w, w.el[e].store)
    ELSE IF w.ver = "v0" THEN walkParentElement(w, e, e)
    ELSE IF w.ver \in {"v1", "v3"} THEN walkReduxStore(w, e, e)
    ELSE walkGetStore(w, e, e)

(***************************************************************************)
(* The render scheduler and the redraw.                                    *)
(***************************************************************************)
\* Promise.resolve().then(callback)
schedule(w, task) ==
    [w EXCEPT !.mq = Append(@, task), !.ev.enq = @ \cup {task}]

\* a scheduler that ignores the pending flag
enqueueRenderUnguarded(w, e) ==
    schedule([w EXCEPT !.el[e].renderEnqueued = TRUE, !.ev.req = @ \cup {e}], RenderTask(e))

\* ev.req: the elements whose enqueueRender was called during the step
enqueueRender(w, e) ==
    LET c == [w EXCEPT !.ev.req = @ \cup {e}] IN
    IF w.el[e].renderEnqueued THEN c
    ELSE schedule([c EXCEPT !.el[e].renderEnqueued = TRUE], RenderTask(e))

\* isFunction(this._preparedDispatch) ? ... : this._preparedDispatch, as the
\* second source of Object.assign (undefined contributes nothing)
dispatchProps(w, e) ==
    IF w.el[e].prepared.t = "object" THEN w.el[e].prepared.o ELSE EmptyObj

\* connect.ts:497: mapDispatchToProps(store.dispatch, ownProps), called anew for
\* every getProps
dispatchPropsNow(w, e, s) == bindActionCreators(mapDispatchToProps(e), s).o

\* the ownProps the projections are called with
ownPropsOf(w, e) ==
    IF w.ver = "v2" THEN w.el[e].renderProps ELSE w.el[e].ownProps

\* Object.assign({}, mapStateToProps(store.getState(), ownProps), dispatch props)
mergedProps(w, e, s) ==
    Obj(Assign(mapStateToProps(w.st[s], ownPropsOf(w, e)),
               IF w.ver = "v3" THEN dispatchPropsNow(w, e, s) ELSE dispatchProps(w, e)))

\* the call of this._preparedMapStateToProps, as its author's counter sees it
mapCalled(w, e) ==
    Count([w EXCEPT !.ev.maps = @ \cup {e}, !.ev.arg[e] = ownPropsOf(w, e),
                    !.ev.fn[e] = w.el[e].preparedMap], e, "mapCalls")

\* getProps of connect.ts:183-192 and 671-680, called through withProps' override
getProps(w, e) ==
    LET r == getStore(w, e) IN
    IF r.exc # "none" THEN r
    ELSE IF w.cfg.throws THEN Throw(mapCalled(r, e), "ProjectionError")
    ELSE [mapCalled(r, e) EXCEPT !.props = mergedProps(r, e, r.ret)]

RECURSIVE dispatch(_, _, _)

\* the template function: a template that dispatches calls the bound action
\* creator it finds in its props while the count it renders is zero
templateFn(w, props) ==
    IF /\ w.cfg.dispatches
       /\ props.t = "object"
       /\ Get(props.o, "inc").t = "function"
       /\ Get(props.o, "count") = Num(0)
    THEN dispatch(w, Get(props.o, "inc").s, "inc")
    ELSE w

\* templateFn(props) handed to the render function with the shadow root
redraw(w, e, props) ==
    LET t == templateFn([w EXCEPT !.ev.tmpl = @ \cup {e}], props) IN
    Count([t EXCEPT !.el[e].shadow = props,
                    !.ev.prev = w.el[e].shadow], e, "redraws")

\* render of connect.ts:194-203 (v1), 501-503 (v3) and 682-697 (v4)
renderConnect(w, e) ==
    IF w.ver = "v4" /\ ~w.el[e].isConnected THEN w
    ELSE LET r == getProps(w, e) IN
         IF r.exc # "none" THEN r
         ELSE IF w.ver = "v3" THEN redraw(r, e, r.props)
         ELSE IF shallowEqual(r.props, r.el[e].previousProps) THEN r
         ELSE redraw([r EXCEPT !.el[e].previousProps = r.props], e, r.props)

\* render of fit-element.ts:217-219
renderFit(w, e) == redraw(w, e, w.el[e].renderProps)

render(w, e) == IF w.ver \in {"v1", "v3", "v4"} THEN renderConnect(w, e) ELSE renderFit(w, e)

\* set renderProps of fit-element.ts:121-128
setRenderProps(w, e, props) ==
    IF shallowEqual(props, w.el[e].renderProps) THEN w
    ELSE enqueueRender([w EXCEPT !.el[e].renderProps = props], e)

\* a computation that catches what the projections throw
computePropsCaught(w, e) ==
    LET r == getStore(w, e) IN
    IF r.exc # "none" THEN r
    ELSE IF w.cfg.throws THEN mapCalled(r, e)
    ELSE setRenderProps(mapCalled(r, e), e, mergedProps(r, e, r.ret))

\* the body of _computeProps: connect.ts:362-369, part_013:158-164
computePropsNow(w, e) ==
    LET r == getStore(w, e) IN
    IF r.exc # "none" THEN r
    ELSE IF w.cfg.throws THEN Throw(mapCalled(r, e), "ProjectionError")
    ELSE setRenderProps(mapCalled(r, e), e, mergedProps(r, e, r.ret))

\* _computeProps: synchronous in v2, deferred to a microtask in head
computeProps(w, e) ==
    IF w.ver = "v2" THEN computePropsNow(w, e)
    ELSE IF w.el[e].propsEnqueued THEN w
    ELSE schedule([w EXCEPT !.el[e].propsEnqueued = TRUE], PropsTask(e))

\* a listener that redraws at once instead of scheduling
listenerRendersNow(w, e) == render(w, e)

\* the listener handed to store.subscribe
\* (part_003:43 subscribes the unbound method this.enqueueRender, which reads
\* this._renderEnqueued with this undefined)
listener(w, e) ==
    IF w.ver = "v0" THEN Throw(w, "TypeError")
    ELSE IF w.ver \in {"v1", "v3", "v4"} THEN enqueueRender(w, e) ELSE computeProps(w, e)

(***************************************************************************)
(* The lifecycle callbacks.                                                *)
(***************************************************************************)
\* an attach that keeps the action creators it bound at an earlier attach
bindOnceAndSubscribe(w, e, s) ==
    subscribe([w EXCEPT !.el[e].prepared =
                   IF @.t = "object" THEN @ ELSE bindActionCreators(mapDispatchToProps(e), s)],
              e, s)

\* an attach that registers its listener twice
bindAndSubscribeAgain(w, e, s) ==
    LET a == subscribe(w, e, s) IN
    [a EXCEPT !.lis[s] = Append(@, e),
              !.el[e].prepared = bindActionCreators(mapDispatchToProps(e), s)]

\* this._preparedDispatch = bindActionCreators(mapDispatchToProps, store.dispatch);
\* this._unsubscribe = store.subscribe(...)
bindAndSubscribe(w, e, s) ==
    subscribe([w EXCEPT !.el[e].prepared = bindActionCreators(mapDispatchToProps(e), s),
                        !.el[e].previousProps = Older(@),
                        !.el[e].renderProps = Older(@),
                        !.el[e].shadow = Older(@)], e, s)

\* connectedCallback of fit-element.ts:181-193
connectedFit(w, e, doRender) ==
    LET c == [w EXCEPT !.el[e].isConnected = TRUE] IN
    IF doRender THEN enqueueRender(c, e) ELSE c

\* connectedCallback of connect.ts:439-446; attachShadow throws on an element
\* that already hosts a shadow root
connectedV3(w, e) ==
    IF w.el[e].shadowRoot THEN Throw(w, "NotSupportedError")
    ELSE LET r == getStore([w EXCEPT !.el[e].shadowRoot = TRUE], e) IN
         IF r.exc # "none" THEN r
         ELSE enqueueRender(subscribe(r, e, r.ret), e)

\* connectedCallback of part_003:38-44
connectedV0(w, e) ==
    IF w.el[e].shadowRoot THEN Throw(w, "NotSupportedError")
    ELSE LET r == getStore([w EXCEPT !.el[e].shadowRoot = TRUE], e) IN
         IF r.exc # "none" THEN r
         ELSE subscribe([r EXCEPT !.el[e].prepared =
                             bindActionCreators(mapDispatchToProps(e), r.ret)], e, r.ret)

connectedCallback(w, e) ==
    IF w.ver = "v0" THEN connectedV0(w, e) ELSE
    IF w.ver = "v3" THEN connectedV3(w, e) ELSE
    LET a == CASE w.ver = "v1" -> w
               [] w.ver = "v4" -> [w EXCEPT !.el[e].isConnected = TRUE]
               [] w.ver = "v2" -> connectedFit(w, e, TRUE)
               [] OTHER -> connectedFit(w, e, FALSE)
        r == getStore(a, e)
    IN  IF r.exc # "none" THEN r
        ELSE LET b == bindAndSubscribe(r, e, r.ret) IN
             IF w.ver \in {"v1", "v4"} THEN enqueueRender(b, e) ELSE computeProps(b, e)

\* a detach that leaves the store's listener in place
disconnectedKeepsListener(w, e) ==
    [w EXCEPT !.el[e].isConnected = FALSE, !.el[e].store = NoStore]

disconnectedCallback(w, e) ==
    LET a == IF w.ver \in {"v0", "v1", "v3"} THEN w
             ELSE [w EXCEPT !.el[e].isConnected = FALSE]
        r == unsubscribe(a, e)
    IN  IF r.exc # "none" \/ w.ver \in {"v0", "v3"} THEN r
        ELSE [r EXCEPT !.el[e].store = NoStore]

\* an exception that leaves a callback, a listener or a microtask is reported,
\* not propagated to the other callbacks
report(w, e) ==
    IF w.exc = "none" THEN w
    ELSE [w EXCEPT !.ev.err[e] = w.exc, !.exc = "none"]

\* the turn's record of an attachment: the first thing of the turn for the element
attachSeen(w, e) ==
    IF w.ob[e] = NewOb /\ ~w.late THEN [w EXCEPT !.ob[e].attached = TRUE]
    ELSE Taint(w, e)

RECURSIVE connectAll(_, _)
connectAll(w, q) ==
    IF q = <<>> THEN w
    ELSE connectAll(report(connectedCallback(attachSeen(w, Head(q)), Head(q)), Head(q)),
                    Tail(q))

RECURSIVE disconnectAll(_, _)
disconnectAll(w, q) ==
    IF q = <<>> THEN w
    ELSE disconnectAll(report(disconnectedCallback(Taint(w, Head(q)), Head(q)), Head(q)),
                       Tail(q))

(***************************************************************************)
(* Own-property assignment: element.p = val.                               *)
(***************************************************************************)
PropValues == {"a"}

\* with-props part_011:73-81: the accessor pair over this._ownProps
setPropWithProps(w, e, val) ==
    IF w.el[e].ownProps.t = "object" /\ Get(w.el[e].ownProps.o, "p") = Str(val) THEN w
    ELSE enqueueRender(
            [w EXCEPT !.el[e].ownProps = Obj(Assign(@.o, "p" :> Str(val)))], e)

\* with-props.ts:49-50: the accessor pair of the earlier mixin
setPropStoreOnly(w, e, val) ==
    [w EXCEPT !.el[e].ownProps = Obj(Assign(@.o, "p" :> Str(val)))]

\* fit-element.ts:143-155 and the ownProps setter of the connect() subclass
setPropFit(w, e, val) ==
    LET cur == ownPropsOf(w, e)
        nxt == Obj(Assign(cur.o, "p" :> Str(val)))
    IN  IF cur.t = "object" /\ Get(cur.o, "p") = Str(val) THEN w
        ELSE IF w.ver = "v2" THEN computePropsNow(setRenderProps(w, e, nxt), e)
        ELSE computeProps([w EXCEPT !.el[e].ownProps = nxt], e)

setProp(w, e, val) ==
    CASE w.ver = "v0" -> w
      [] w.ver \in {"v1", "v4"} -> setPropWithProps(w, e, val)
      [] w.ver = "v3" -> setPropStoreOnly(w, e, val)
      [] OTHER -> setPropFit(w, e, val)

(***************************************************************************)
(* redux dispatch: the reducer, then every listener in subscription order. *)
(***************************************************************************)
\* the turn's record of a notification: synchronous ones are counted
notified(w, e) ==
    LET c == [w EXCEPT !.ev.ntf = @ \cup {e}] IN
    IF w.late THEN Taint(c, e) ELSE Count(c, e, "notifs")

RECURSIVE notify(_, _)
notify(w, q) ==
    IF q = <<>> THEN w
    ELSE LET e == Head(q)
             r == listener(notified(w, e), e)
         IN  IF r.exc # "none" THEN report(r, e)
             ELSE notify(r, Tail(q))

dispatch(w, s, a) ==
    notify([w EXCEPT !.st[s] = reducer(s, @, a)], w.lis[s])

(***************************************************************************)
(* Microtasks.                                                             *)
(***************************************************************************)
\* a callback that clears the pending flag only after the redraw
renderTaskClearsAfter(w, e) ==
    LET r == IF w.ver \in {"v1", "v3"} \/ w.el[e].isConnected THEN render(w, e) ELSE w IN
    [r EXCEPT !.el[e].renderEnqueued = FALSE]

renderTaskKeepsFlag(w, e) ==
    IF w.ver \in {"v1", "v3"} \/ w.el[e].isConnected
    THEN render([w EXCEPT !.el[e].renderEnqueued = FALSE], e) ELSE w

\* the callback passed to Promise.resolve().then in enqueueRender
renderTask(w, e) ==
    LET c == [w EXCEPT !.el[e].renderEnqueued = FALSE] IN
    IF w.ver \in {"v1", "v3"} \/ c.el[e].isConnected THEN render(c, e) ELSE c

\* the callback passed to Promise.resolve().then in _computeProps (part_013:155-165)
propsTask(w, e) ==
    computePropsNow([w EXCEPT !.el[e].propsEnqueued = FALSE], e)

runTask(w, m) ==
    report(IF m.kind = "render" THEN renderTask(w, m.el) ELSE propsTask(w, m.el), m.el)

(***************************************************************************)
(* The state machine.                                                      *)
(***************************************************************************)
\* the elements and stores after construction
Constructed(V, C) ==
    /\ ver \in V
    /\ cfg \in C
    /\ pos = [e \in Elements |-> Nil]
    /\ el = [e \in Elements |-> construct(ver, cfg)]
    /\ st = [s \in Stores |-> 0]
    /\ lis = [s \in Stores |-> <<>>]
    /\ mq = <<>>
    /\ turn = NewTurn(0)
    /\ ob = [e \in Elements |-> NewOb]
    /\ ev = NewEv("init", Nil)
    /\ ops = 0

InitCfg(V, C) == Constructed(V, C) /\ pf = NoCall

InitFor(V) == InitCfg(V, {Plain})

Init == InitFor(Versions)

\* a script is running: the task's own code, or a continuation it awaited
Scripting == turn.phase \in {"task", "late"} /\ ops < MaxOps

Commit(w) ==
    /\ pos' = w.pos
    /\ el' = w.el
    /\ st' = w.st
    /\ lis' = w.lis
    /\ mq' = w.mq
    /\ ob' = w.ob
    /\ ev' = w.ev
    /\ ver' = ver
    /\ cfg' = cfg
    /\ pf' = pf

ScriptStep == ops' = ops + 1 /\ turn' = turn

\* parent.appendChild(n): the connectedCallback of every binding element of the
\* inserted subtree runs if the subtree is now in the document
AppendChild(n, p) ==
    /\ Scripting
    /\ pos[n] = Nil
    /\ p \in Places(n) \cup RootPlaces(cfg, n) \cup LoosePlaces(cfg, n)
    /\ LET w == [World("append", n) EXCEPT !.pos[n] = p] IN
       Commit(IF InDocument(w.pos, n) THEN connectAll(w, SubtreeElements(w.pos, n))
              ELSE w)
    /\ ScriptStep

\* n.remove(): the disconnectedCallback of every binding element of the removed
\* subtree runs if the subtree was in the document
RemoveChild(n) ==
    /\ Scripting
    /\ pos[n] # Nil
    /\ LET w == [World("remove", n) EXCEPT !.pos[n] = Nil] IN
       Commit(IF InDocument(pos, n) THEN disconnectAll(w, SubtreeElements(pos, n))
              ELSE w)
    /\ ScriptStep

SetProperty(e, val) ==
    /\ Scripting
    /\ LET w == [World("set", e) EXCEPT !.el[e].assigned = Assign(@, "p" :> Str(val))] IN
       Commit(report(setProp(Taint(w, e), e, val), e))
    /\ ScriptStep

Dispatch(s, a) ==
    /\ Scripting
    /\ reducer(s, st[s], a) \in 0..MaxState
    /\ Commit(dispatch(World("dispatch", s), s, a))
    /\ ScriptStep

\* await: the script is suspended and its continuation becomes a microtask
Await ==
    /\ Scripting
    /\ Commit([World("await", Nil) EXCEPT !.mq = Append(@, UserTask)])
    /\ ops' = ops + 1
    /\ turn' = [turn EXCEPT !.phase = "micro"]

\* the microtask at the head of the queue runs
FireMicrotask ==
    /\ mq # <<>>
    /\ LET m == Head(mq) IN
       IF m.kind = "user"
       THEN /\ Commit([World("resume", Nil) EXCEPT !.mq = Tail(@)])
            /\ turn' = [turn EXCEPT !.phase = "late", !.resumes = Min(@ + 1, MaxCount)]
       ELSE /\ Commit(runTask([World("fire", m.el) EXCEPT !.mq = Tail(@)], m))
            /\ turn' = [turn EXCEPT !.phase = "micro"]
    /\ ops' = ops

\* the microtask queue is empty: the next task begins
EndTurn ==
    /\ mq = <<>>
    /\ ev.act \notin {"init", "end"}
    /\ turn' = NewTurn(st["O"])
    /\ ob' = [e \in Elements |-> NewOb]
    /\ ev' = NewEv("end", Nil)
    /\ UNCHANGED <<ver, cfg, pos, el, st, lis, mq, ops, pf>>

Next ==
    \/ \E n \in Elements, p \in Nodes : AppendChild(n, p)
    \/ \E n \in Elements : RemoveChild(n)
    \/ \E val \in PropValues : SetProperty("x", val)
    \/ \E s \in Stores, a \in Actions : Dispatch(s, a)
    \/ Await
    \/ FireMicrotask
    \/ EndTurn

Spec == Init /\ [][Next]_vars
SpecV0 == InitFor({"v0"}) /\ [][Next]_vars
SpecV1 == InitFor({"v1"}) /\ [][Next]_vars
SpecV3 == InitFor({"v3"}) /\ [][Next]_vars
SpecV2 == InitFor({"v2"}) /\ [][Next]_vars
SpecV4 == InitFor({"v4"}) /\ [][Next]_vars
SpecHead == InitFor({"head"}) /\ [][Next]_vars

\* element e is the root element of the README: withStore(store)(TodosApp)
\* every revision, with a state projection that throws
SpecThrow ==
    InitCfg(Versions \cup {"v3"}, {[Plain EXCEPT !.throws = TRUE]}) /\ [][Next]_vars

\* every revision with isFactory, and a mapStateToProps of either kind
SpecFactory ==
    InitCfg(Versions, {[Plain EXCEPT !.params = n] : n \in {0, 1}}) /\ [][Next]_vars

\* every revision, with a template that dispatches while it renders
SpecTemplate ==
    InitCfg(Versions \cup {"v3"}, {[Plain EXCEPT !.dispatches = TRUE]}) /\ [][Next]_vars

\* connect.ts:597-734 with a template that dispatches while it renders
SpecTemplateV4 ==
    InitCfg({"v4"}, {[Plain EXCEPT !.dispatches = TRUE]}) /\ [][Next]_vars

SpecOwn == InitCfg({"head"}, {[Plain EXCEPT !.own = s] : s \in Stores}) /\ [][Next]_vars

(***************************************************************************)
(* shallowEqual on its own: every pair of arguments out of null, undefined *)
(* and the flat objects over EqKeys with values in EqValues.               *)
(***************************************************************************)
\* The microtask queue is processed fairly: a queued microtask is not left waiting
\* for ever.  This is WF_vars(FireMicrotask) written out with its enabling
\* condition, FireMicrotask being enabled exactly when the queue is not empty.
MicrotasksFair == []<>(mq = <<>>) \/ []<><<FireMicrotask>>_vars
Throwing == [Plain EXCEPT !.throws = TRUE]
SpecLoose == InitCfg({"v4", "head"}, {[Plain EXCEPT !.loose = TRUE]}) /\ [][Next]_vars
SpecFair == InitCfg({"v4", "head"}, {Plain, Throwing}) /\ [][Next]_vars /\ MicrotasksFair

EqKeys == {"x", "y"}
EqValues == {Undef, Num(1), Num(2)}
EqObjects == UNION {[K -> EqValues] : K \in SUBSET EqKeys}
EqArgs == {NullRef, UndefRef} \cup {Obj(o) : o \in EqObjects}

InitEq ==
    /\ Constructed({"v4"}, {Plain})
    /\ pf \in [fn : {"shallowEqual"}, a : EqArgs, b : EqArgs, res : {"pending"}]

CallShallowEqual ==
    /\ pf.res = "pending"
    /\ pf' = [pf EXCEPT !.res = IF shallowEqual(pf.a, pf.b) THEN "true" ELSE "false"]
    /\ UNCHANGED <<ver, cfg, pos, el, st, lis, mq, turn, ob, ev, ops>>

SpecEq == InitEq /\ [][CallShallowEqual]_vars

(***************************************************************************)
(* Object.assign({}, stateProps, dispatchProps) of getProps and            *)
(* _computeProps, on a heap of three objects: t, the object literal; a,    *)
(* the record the state projection returned; b, the dispatch projection's  *)
(* record, or undefined.                                                   *)
(***************************************************************************)
MergeKeys == {"count", "inc"}
MergeValues == {Undef, Num(1), Fn("O", 1)}
MergeObjects == UNION {[K -> MergeValues] : K \in SUBSET MergeKeys}

RECURSIVE objectAssign(_, _, _)
\* Object.assign(target, ...sources): every own key of every source that is
\* neither null nor undefined is written to the target, in order
objectAssign(h, target, sources) ==
    IF sources = <<>> THEN h
    ELSE LET src == h[Head(sources)]
             nh == IF IsNullish(src) THEN h
                   ELSE [h EXCEPT ![target] = Obj(Assign(@.o, src.o))]
         IN  objectAssign(nh, target, Tail(sources))

\* a merge into the state projection's record instead of a new object
assignInPlace(h) == [heap |-> objectAssign(h, "a", <<"b">>), ret |-> "a"]

\* connect.ts:673-679, part_013:164: the heap after the call and the object returned
assignProps(h) ==
    [heap |-> objectAssign([h EXCEPT !.t = Obj(EmptyObj)], "t", <<"a", "b">>), ret |-> "t"]

InitMerge ==
    /\ Constructed({"v4"}, {Plain})
    /\ \E a \in MergeObjects, b \in {UndefRef} \cup {Obj(o) : o \in MergeObjects} :
          pf = [fn |-> "assign", a |-> Obj(a), b |-> b, res |-> "pending",
                heap |-> [t |-> UndefRef, a |-> Obj(a), b |-> b]]

CallAssignProps ==
    /\ pf.fn = "assign" /\ pf.res = "pending"
    /\ pf' = [pf EXCEPT !.heap = assignProps(pf.heap).heap, !.res = assignProps(pf.heap).ret]
    /\ UNCHANGED <<ver, cfg, pos, el, st, lis, mq, turn, ob, ev, ops>>

SpecMerge == InitMerge /\ [][CallAssignProps]_vars

TypeOK == ver \in Versions \cup {"v0", "v3"}

(***************************************************************************)
(* Vocabulary of the properties.                                           *)
(***************************************************************************)
\* the world as it stands, for evaluating the code's pure parts in a state
Here == World(ev.act, ev.who)

\* the View Properties the element's projections yield from the present store
\* state and the present own properties
Derived(e) ==
    IF el[e].store = NoStore THEN UndefRef
    ELSE mergedProps(Here, e, el[e].store)

\* the number of queued redraw microtasks of an element
PendingRedraws(e) == Cardinality({i \in 1..Len(mq) : mq[i] = RenderTask(e)})

Subscribed(e, s) == \E i \in 1..Len(lis[s]) : lis[s][i] = e

\* the element was subscribed once and is out of the document: its
\* disconnectedCallback has run
Detached(e) ==
    /\ ~InDocument(pos, e)
    /\ el[e].unsub.store # NoStore

\* the turn so far: the element's store notified it synchronously, at least
\* once, and nothing else acted on the element
OnlyNotified(e) == ob[e].pure /\ ob[e].notifs >= 1

RECURSIVE NearestSource(_, _)
\* the store of the closest ancestor that is a store source
NearestSource(p, n) ==
    IF Up(p, n) = Nil THEN NoStore
    ELSE IF isProvider(Up(p, n)) THEN ProvidedStore(Up(p, n))
    ELSE NearestSource(p, Up(p, n))

C2_MapStateOnce ==
    \A e \in Elements :
        (ev.act = "resume" /\ turn.resumes = 1 /\ OnlyNotified(e) /\ ob[e].attached)
            => ob[e].mapCalls = 1

(***************************************************************************)
(* C3.  The store holds 0 when the turn begins; an increment is dispatched *)
(* twice synchronously; when the script resumes from awaiting one          *)
(* microtask turn, exactly one redraw of the element has happened, and     *)
(* the view it rendered has count = 2.                                     *)
(***************************************************************************)
C3_OneRenderWithTwo ==
    \A e \in Elements :
        ( /\ ev.act = "resume" /\ turn.resumes = 1
          /\ OnlyNotified(e) /\ ob[e].notifs = 2
          /\ el[e].store = "O" /\ turn.st0 = 0 /\ st["O"] = 2 )
            => /\ ob[e].redraws = 1
               /\ Get(el[e].shadow.o, "count") = Num(2)

(***************************************************************************)
(* C4.  Nearest-ancestor resolution.  A subscribed element has resolved    *)
(* the store of the closest ancestor that is a store source, and it is     *)
(* subscribed to that store and to no other.                               *)
(***************************************************************************)
C4_NearestAncestor ==
    \A e \in Elements :
        el[e].unsub.live =>
            /\ el[e].store = NearestSource(pos, e)
            /\ el[e].unsub.store = el[e].store
            /\ \A s \in Stores : Subscribed(e, s) <=> s = el[e].store

(***************************************************************************)
(* C5.  Detach releases the subscription.  An element on which             *)
(* disconnectedCallback has run is no store's listener, and a dispatch     *)
(* does not notify it, schedules no microtask for it, invokes neither its  *)
(* projection nor its template function, and raises no error for it.       *)
(***************************************************************************)
C5_DetachReleases ==
    \A e \in Elements :
        Detached(e) =>
            /\ \A s \in Stores : ~Subscribed(e, s)
            /\ ev.act = "dispatch" =>
                /\ e \notin ev.ntf \cup ev.maps \cup ev.tmpl
                /\ \A t \in ev.enq : t.el # e
                /\ ev.err[e] = "none"

\* a dispatch on the store a detached element was subscribed to
C5_Witness ==
    \E e \in Elements :
        /\ Detached(e)
        /\ ev.act = "dispatch" /\ ev.who = el[e].unsub.store

(***************************************************************************)
(* C6.  Missing store.  When the attach callback raises the missing-store  *)
(* error, no redraw of the element has been enqueued by it and its         *)
(* template function has not been invoked.                                 *)
(***************************************************************************)
C6_ErrorBeforeRender ==
    \A e \in Elements :
        (ev.act = "append" /\ ev.err[e] = "MissingStore") =>
            /\ RenderTask(e) \notin ev.enq
            /\ e \notin ev.tmpl

(***************************************************************************)
(* C7.  Equality suppression.  In a turn in which only store               *)
(* notifications acted on the element, a redraw never renders View         *)
(* Properties that are shallow-equal to the view rendered last.            *)
(***************************************************************************)
C7_EqualitySuppression ==
    \A e \in Elements :
        (e \in ev.tmpl /\ OnlyNotified(e) /\ ~ob[e].attached) =>
            ~shallowEqual(el[e].shadow, ev.prev)

(***************************************************************************)
(* C8.  Fire-time freshness.  Whenever a redraw fires, the View Properties *)
(* handed to the template function are those derived from the state of    *)
(* the element's store and from its own properties at that moment.         *)
(***************************************************************************)
C8_FireTimeFreshness ==
    \A e \in Elements :
        (e \in ev.tmpl /\ el[e].store # NoStore) => el[e].shadow = Derived(e)

(***************************************************************************)
(* C9.  A microtask of an element that was scheduled by its attachment or  *)
(* by a notification, and that fires after the element was detached, does  *)
(* nothing: no projection, no template function, no error.                 *)
(***************************************************************************)
C9_NoOpAfterDetach ==
    \A e \in Elements :
        ( /\ ev.act = "fire" /\ ev.who = e
          /\ Detached(e)
          /\ Get(ownPropsOf(Here, e).o, "p") = Undef )
            => /\ e \notin ev.maps \cup ev.tmpl
               /\ ev.err[e] = "none"

(***************************************************************************)
(* C10.  At most one pending redraw.  The microtask queue never holds more *)
(* than one redraw of an element, and holds one exactly when the element's *)
(* pending flag is set.                                                    *)
(***************************************************************************)
C10_AtMostOnePending ==
    \A e \in Elements :
        /\ PendingRedraws(e) <= 1
        /\ PendingRedraws(e) = 1 <=> el[e].renderEnqueued

\* a notification called enqueueRender while a redraw was pending: nothing scheduled
C10_Witness ==
    \E e \in Elements :
        /\ ver \in {"v1", "v4"}
        /\ ev.act = "dispatch" /\ e \in ev.ntf
        /\ ev.enq = {}
        /\ PendingRedraws(e) = 1

(***************************************************************************)
(* C11.  Every subscription handle is released exactly once: its           *)
(* unsubscribe function has not been invoked while its listener is         *)
(* registered, has been invoked once the element is out of the document,   *)
(* and is never invoked a second time.                                     *)
(***************************************************************************)
C11_ReleasedExactlyOnce ==
    \A e \in Elements :
        el[e].unsub.store # NoStore =>
            /\ el[e].unsub.calls <= 1
            /\ el[e].unsub.live => el[e].unsub.calls = 0
            /\ ~InDocument(pos, e) => el[e].unsub.calls = 1

\* the listeners of element e that the stores hold
SubCount(e) ==
    LET n(s) == Cardinality({i \in DOMAIN lis[s] : lis[s][i] = e}) IN
    n("O") + n("I")

(***************************************************************************)
(* C12.  An element never has more than one registered store listener; it  *)
(* has none while it is out of the document, it has exactly one when an    *)
(* attach has returned without an error, and it keeps that one for as long *)
(* as it stays in the document.                                            *)
(***************************************************************************)
C12_Step ==
    \A e \in Elements :
        InDocument(pos', e) =>
            IF InDocument(pos, e) THEN SubCount(e)' = SubCount(e)
            ELSE ev'.err[e] = "none" => SubCount(e)' = 1

C12_OneSubscription ==
    /\ [](\A e \in Elements :
            /\ SubCount(e) <= 1
            /\ ~InDocument(pos, e) => SubCount(e) = 0)
    /\ [][C12_Step]_vars

C12_Witness ==
    /\ ev.act = "append"
    /\ ops >= 4
    /\ \A e \in Elements : InDocument(pos, e) /\ SubCount(e) = 1

(***************************************************************************)
(* C13.  An element configured with its own store is subscribed to that    *)
(* store whenever it is in the document, with or without a store source    *)
(* above it, and so is every binding element in the document whose closest *)
(* store source it is (here: x in the shadow root of e).                   *)
(***************************************************************************)
C13_Root ==
    cfg.own # NoStore /\ InDocument(pos, "e") => Subscribed("e", cfg.own)

C13_SelfSuppliedStore ==
    /\ C13_Root
    /\ cfg.own # NoStore /\ InDocument(pos, "x") /\ pos["x"] = "sr"
            => Subscribed("x", cfg.own)

(***************************************************************************)
(* C14.  shallowEqual(a, b) agrees with its reference definition: it is    *)
(* true when a and b are the identical value or are both objects with the  *)
(* same keys and identical values under every key; it is false when        *)
(* exactly one of them is null or undefined, when their key sets differ,   *)
(* or when some shared key has non-identical values.                       *)
(***************************************************************************)
C14_True(a, b) ==
    \/ a = b
    \/ /\ ~IsNullish(a) /\ ~IsNullish(b)
       /\ DOMAIN a.o = DOMAIN b.o
       /\ \A k \in DOMAIN a.o : a.o[k] = b.o[k]

C14_False(a, b) ==
    \/ IsNullish(a) # IsNullish(b)
    \/ /\ ~IsNullish(a) /\ ~IsNullish(b)
       /\ \/ DOMAIN a.o # DOMAIN b.o
          \/ \E k \in DOMAIN a.o \cap DOMAIN b.o : a.o[k] # b.o[k]

C14_ReferenceDefinition ==
    pf.fn = "shallowEqual" /\ pf.res # "pending" =>
        /\ C14_True(pf.a, pf.b) => pf.res = "true"
        /\ C14_False(pf.a, pf.b) => pf.res = "false"

\* the last step was an insertion that ran the connectedCallback of e, and the
\* callback returned without an error
JustAttached(e) ==
    /\ ev.act = "append"
    /\ InDocument(pos, ev.who)
    /\ \E i \in DOMAIN SubtreeElements(pos, ev.who) : SubtreeElements(pos, ev.who)[i] = e
    /\ ev.err[e] = "none"

(***************************************************************************)
(* C15.  When the connectedCallback of an element has returned without an  *)
(* error, a redraw of the element is in the microtask queue.               *)
(***************************************************************************)
C15_AttachEnqueuesRedraw ==
    \A e \in Elements : JustAttached(e) => PendingRedraws(e) >= 1

\* element.p as a script reads it: the getter of with-props (part_011:72,
\* with-props.ts:49) or of fit-element.ts:143-145
getProp(e) ==
    LET o == ownPropsOf(Here, e) IN
    IF o.t = "object" THEN Get(o.o, "p") ELSE Undef

\* the queued microtasks of an element: redraws and props computations
PendingTasks(e) == Cardinality({i \in 1..Len(mq) : mq[i].el = e})

(***************************************************************************)
(* C16.  When a script assigns a different value to the own property of an *)
(* element that is in the document and subscribed, the assignment leaves a *)
(* microtask of the element queued: the computation of the View Properties *)
(* from the new own properties, or the redraw that computes them.          *)
(***************************************************************************)
C16_Step ==
    \A e \in Elements :
        /\ ev'.act = "set" /\ ev'.who = e
        /\ InDocument(pos, e) /\ el[e].unsub.live
        /\ getProp(e)' # getProp(e)
        => PendingTasks(e)' >= 1

C16_ReassignmentRecomputes == [][C16_Step]_vars

(***************************************************************************)
(* C17.  Whenever the state projection of an element is called, the        *)
(* ownProps argument holds exactly the properties that scripts have        *)
(* assigned to the element, and no derived View Property.                  *)
(***************************************************************************)
C17_OwnPropsOnlyAssigned ==
    \A e \in ev.maps :
        (IF ev.arg[e].t = "object" THEN ev.arg[e].o ELSE EmptyObj) = el[e].assigned

C19_FactoryAtConstruction ==
    \A e \in Elements :
        IF cfg.params = 0
        THEN /\ el[e].factoryCalls = 1
             /\ e \in ev.maps => ev.fn[e] = "returned"
        ELSE /\ el[e].factoryCalls = 0
             /\ e \in ev.maps => ev.fn[e] = "passed"

C19_Witness ==
    /\ cfg.params = 0
    /\ \E e \in ev.maps : ev.fn[e] = "returned" /\ el[e].factoryCalls = 1 /\ e \in ev.tmpl

(***************************************************************************)
(* C20.  The pending flag is cleared before the redraw runs: when a        *)
(* scheduled redraw of an element has fired and enqueueRender was called   *)
(* for the element from within that redraw, the call scheduled a new       *)
(* redraw microtask, which is in the queue when the step ends.             *)
(***************************************************************************)
C20_EnqueueFromRedraw ==
    \A e \in Elements :
        ev.act = "fire" /\ ev.who = e /\ e \in ev.tmpl /\ e \in ev.req =>
            /\ RenderTask(e) \in ev.enq
            /\ PendingRedraws(e) = 1
            /\ el[e].renderEnqueued

C20_Witness ==
    /\ ev.act = "fire"
    /\ ev.who \in ev.tmpl \cap ev.req
    /\ RenderTask(ev.who) \in ev.enq

(***************************************************************************)
(* C21.  A removal that runs the disconnectedCallback of an element leaves *)
(* its store cache empty, and an insertion that attaches a previously      *)
(* subscribed element without error leaves it with the store of its        *)
(* closest store source cached and subscribed.                             *)
(***************************************************************************)
C21_Step ==
    \A e \in Elements :
        /\ (ev'.act = "remove" /\ InDocument(pos, e) /\ ~InDocument(pos', e))
                => el'[e].store = NoStore
        /\ ( /\ ev'.act = "append" /\ ~InDocument(pos, e) /\ InDocument(pos', e)
             /\ ev'.err[e] = "none" /\ el[e].unsub.store # NoStore )
                => /\ el'[e].store = NearestSource(pos', e)
                   /\ el'[e].unsub.store = el'[e].store
                   /\ el'[e].unsub.live

C21_CacheClearedOnDetach == [][C21_Step]_vars

(* C22. Under fair processing of the microtask queue every set pending flag is
   eventually cleared by the firing of its microtask, whether the element was
   detached in between or the redraw fails, and whenever the microtask queue is
   empty no element has a pending flag set. *)
NoFlagSet == \A e \in Elements : ~el[e].renderEnqueued /\ ~el[e].propsEnqueued
C22_EnqueuedEventuallyFires ==
    /\ [](mq = <<>> => NoFlagSet)
    /\ \A e \in Elements :
          /\ el[e].renderEnqueued ~> ~el[e].renderEnqueued
          /\ el[e].propsEnqueued ~> ~el[e].propsEnqueued
C22_Witness ==
    /\ ev.act = "fire" /\ ev.who \in Elements
    /\ ~InDocument(pos, ev.who) \/ ev.err[ev.who] # "none"
    /\ mq = <<>> /\ NoFlagSet

\* the record the element compares new View Properties against:
\* _previousProps (connect.ts) or _renderProps (fit-element.ts)
Snapshot(e) ==
    IF ver \in {"v1", "v3", "v4"} THEN el[e].previousProps ELSE el[e].renderProps

(* C23. The Previous-Render Snapshot is the View Properties record of the most
   recent completed redraw: whenever no microtask of the element is queued, the
   snapshot is the record that was rendered last (or empty if none was). *)
C23_SnapshotIsLastRendered ==
    \A e \in Elements :
        PendingTasks(e) = 0 =>
            \/ Snapshot(e) = el[e].shadow
            \/ el[e].shadow = UndefRef /\ Snapshot(e) = NullRef

(* C24. Each re-attach of a previously attached and detached element below a
   store source succeeds without error and leaves the element with a live
   subscription to a store found again. *)
C24_Step ==
    \A e \in Elements :
        ( /\ ev'.act = "append" /\ ~InDocument(pos, e) /\ InDocument(pos', e)
          /\ el[e].unsub.store # NoStore /\ ~el[e].unsub.live
          /\ NearestSource(pos', e) # NoStore )
            => /\ ev'.err[e] = "none"
               /\ el'[e].unsub.live
               /\ \E i \in DOMAIN lis'[el'[e].unsub.store] : lis'[el'[e].unsub.store][i] = e
C24_ReattachSucceeds == [][C24_Step]_vars

(* C25. An element attached inside the shadow root of another element continues
   its store lookup at the shadow host: the attach succeeds and subscribes the
   element to the nearest store source above the host. *)
C25_Step ==
    ( /\ ev'.act = "append" /\ pos'["x"] = "sr"
      /\ ~InDocument(pos, "x") /\ InDocument(pos', "x")
      /\ ~el["x"].shadowRoot \/ ver' \notin {"v0", "v3"} )
        => /\ ev'.err["x"] = "none"
           /\ el'["x"].unsub.live
           /\ el'["x"].unsub.store = NearestSource(pos', "e")
C25_LookupCrossesShadow == [][C25_Step]_vars

(* C26. A microtask of one binding element, and an assignment to its own
   property, leave the state of every store and the fields of every other
   binding element unchanged. *)
C26_Step ==
    \A a \in Elements :
        (ev'.act \in {"fire", "set"} /\ ev'.who = a) =>
            /\ st' = st
            /\ \A o \in Elements \ {a} : el'[o] = el[o]
C26_OthersUntouched == [][C26_Step]_vars

(* C27. Detach tears down the snapshot: when an element has been removed from
   the document, after its disconnectedCallback it holds no Previous-Render
   Snapshot. *)
C27_Step ==
    \A e \in Elements :
        (ev'.act = "remove" /\ InDocument(pos, e) /\ ~InDocument(pos', e))
            => Snapshot(e)' \in {NullRef, UndefRef}
C27_SnapshotTornDown == [][C27_Step]_vars

(* C28. No necessary redraw is skipped: whenever an element is in the document,
   subscribed, and has no redraw or props computation pending, the View
   Properties rendered last are shallow-equal to those derived from the present
   store state and the present own properties. *)
C28_NoRedrawSkipped ==
    \A e \in Elements :
        ( /\ InDocument(pos, e) /\ el[e].unsub.live /\ el[e].store # NoStore
          /\ PendingTasks(e) = 0 )
            => shallowEqual(el[e].shadow, Derived(e))

(* C29. Whenever an element that was attached is out of the document, its store
   cache is empty: no microtask that fires after disconnectedCallback fills
   the cache again. *)
C29_DetachedCacheEmpty ==
    \A e \in Elements : Detached(e) => el[e].store = NoStore

(* C30. A failed attach leaves the element as it was: when connectedCallback
   has raised the missing-store error, the element has no subscription, no
   cached store, is not marked connected and has no redraw enqueued by the
   attach. *)
C30_Step ==
    \A e \in Elements :
        ( /\ ev'.act = "append" /\ ~InDocument(pos, e) /\ InDocument(pos', e)
          /\ ev'.err[e] = "MissingStore" )
            => /\ ~el'[e].unsub.live
               /\ el'[e].store = NoStore
               /\ ~el'[e].isConnected
               /\ el'[e].renderEnqueued = el[e].renderEnqueued
               /\ \A t \in ev'.enq : t.el # e
C30_FailedAttachLeavesNothing == [][C30_Step]_vars

(* C31. Detaching an element whose preceding attach failed with the
   missing-store error (it is in the document without a live subscription)
   raises no error and invokes no unsubscribe function. *)
C31_Step ==
    \A e \in Elements :
        ( /\ ev'.act = "remove" /\ InDocument(pos, e) /\ ~InDocument(pos', e)
          /\ ~el[e].unsub.live )
            => /\ ev'.err[e] = "none"
               /\ el'[e].unsub.calls = el[e].unsub.calls
C31_DetachAfterFailedAttach == [][C31_Step]_vars

(* C32. Assigning an own property to an element that is not attached raises no
   error, neither synchronously nor from the props computation it queued. *)
C32_Step ==
    \A e \in Elements :
        /\ (ev'.act = "set" /\ ev'.who = e /\ ~InDocument(pos, e))
                => ev'.err[e] = "none"
        /\ ( /\ ev'.act = "fire" /\ mq # <<>> /\ Head(mq) = PropsTask(e)
             /\ ~InDocument(pos, e) /\ el[e].unsub.store = NoStore )
                => ev'.err[e] = "none"
C32_UnattachedAssignment == [][C32_Step]_vars

(* C33. The actions in an element's View Properties dispatch to the store the
   element is resolved to: every action of a rendered view is bound to the
   store of the nearest store source above the element, and an action invoked
   by the template during a redraw changes the state of that store only. *)
BoundTo(r, s) ==
    r.t = "object" /\ \A k \in DOMAIN r.o : r.o[k].t = "function" => r.o[k] = Fn(s, 1)
C33_Step ==
    \A e \in Elements :
        (ev'.act = "fire" /\ e \in ev'.tmpl) =>
            \A s \in Stores : st'[s] # st[s] => s = NearestSource(pos', e)
C33_ActionsBoundToCurrentStore ==
    /\ [](\A e \in ev.tmpl :
            /\ el[e].store = NearestSource(pos, e)
            /\ BoundTo(el[e].shadow, el[e].store))
    /\ [][C33_Step]_vars
\* x was rendered below one store source, detached, attached below another,
\* and its redraw there has just invoked the action
C33_Witness ==
    /\ ev.act = "fire" /\ "x" \in ev.tmpl /\ "x" \in ev.ntf
    /\ ev.prev.t = "object" /\ Get(ev.prev.o, "inc").t = "function"
    /\ Get(ev.prev.o, "inc").s # el["x"].store
    /\ Get(el["x"].shadow.o, "inc") = Fn(NearestSource(pos, "x"), 1)
    /\ st[el["x"].store] >= 1

(* C34. View Properties are a freshly created record that holds every key of
   the state projection and every key of the dispatch projection, with the
   dispatch projection's value where both define a key; the records the
   projections returned are not modified. *)
C34_MergedFreshRecord ==
    (pf.fn = "assign" /\ pf.res # "pending") =>
        LET r == pf.heap[pf.res]
            A == pf.a.o
            B == IF pf.b.t = "object" THEN pf.b.o ELSE EmptyObj
        IN  /\ pf.res \notin {"a", "b"}
            /\ r.t = "object"
            /\ DOMAIN r.o = DOMAIN A \cup DOMAIN B
            /\ \A k \in DOMAIN B : r.o[k] = B[k]
            /\ \A k \in DOMAIN A \ DOMAIN B : r.o[k] = A[k]
            /\ pf.heap.a = pf.a /\ pf.heap.b = pf.b
\* both projections define the key inc, with different values
C34_Witness ==
    /\ pf.fn = "assign" /\ pf.res # "pending" /\ pf.b.t = "object"
    /\ "inc" \in DOMAIN pf.a.o \cap DOMAIN pf.b.o
    /\ pf.a.o["inc"] # pf.b.o["inc"]
    /\ pf.heap[pf.res].o["inc"] = pf.b.o["inc"]

(* C35. shallowEqual is reflexive and symmetric on null, undefined and flat
   records: a call with identical arguments yields true, and a call yields
   what the call with the arguments exchanged yields. *)
C35_ReflexiveSymmetric ==
    (pf.fn = "shallowEqual" /\ pf.res # "pending") =>
        /\ pf.a = pf.b => pf.res = "true"
        /\ (pf.res = "true") <=> shallowEqual(pf.b, pf.a)
====
